---- MODULE Spec2Model ----
(***************************************************************************)
(* AuthManager (app/assets/js/authmanager.js): the Mojang account session  *)
(* lifecycle.  Every exported operation is an async function; it runs      *)
(* synchronously up to an await on the Mojang REST API, is suspended, and  *)
(* resumes with the provider's response.  One action models one            *)
(* synchronous segment.  Several invocations may be in flight at once.     *)
(*                                                                         *)
(* ConfigManager (the account store) and Lang (the message catalog) are    *)
(* modules of the repository whose code is not in the source tree at hand; *)
(* they are modelled from sections 3, 4.3 and 6 of the specification.      *)
(***************************************************************************)
EXTENDS Integers, Sequences, FiniteSets, TLC

\* ---------------------------------------------------------------- bounds
\* Number of invocations that may be in flight at the same time.
MaxProcs == 2

Procs == 1..MaxProcs

\* Profile ids (account uuids), access tokens, login names, profile names,
\* client tokens: the values the provider and the caller hand in.
Ids == {"id1", "id2"}
Tokens == {"at1", "at2"}
Usernames == {"user"}
Names == {"Steve"}
ClientTokens == {"ct1", "ct2"}
NULL == "null"

\* ------------------------------------------------------------ error codes
\* MojangErrorCode, the provider's enumeration, as far as the switch of
\* mojangErrorDisplayable names it.
MojangErrorCode ==
    { "ERROR_METHOD_NOT_ALLOWED", "ERROR_NOT_FOUND", "ERROR_USER_MIGRATED",
      "ERROR_INVALID_CREDENTIALS", "ERROR_RATELIMIT", "ERROR_INVALID_TOKEN",
      "ERROR_ACCESS_TOKEN_HAS_PROFILE", "ERROR_CREDENTIALS_MISSING",
      "ERROR_INVALID_SALT_VERSION", "ERROR_UNSUPPORTED_MEDIA_TYPE",
      "ERROR_GONE", "ERROR_UNREACHABLE", "ERROR_NOT_PAID", "UNKNOWN" }

\* A code the switch has no case for.
UnrecognizedCodes == { "ERROR_UNRECOGNIZED" }

\* The codes a provider response may carry in mojangErrorCode.
ResponseCodes == MojangErrorCode \cup UnrecognizedCodes

\* The codes drawn where invocations overlap: one the switch knows, one it
\* does not.
SampleCodes == { "ERROR_INVALID_CREDENTIALS", "ERROR_UNRECOGNIZED" }

\* Lang.queryJS(key): the catalog's localized string for a key; total.
queryJS(key) == <<"auth.mojang.error", key>>

\* The value of an error object that was never built (the mapper threw).
NoDisplayable == [title |-> <<>>, desc |-> <<>>]

\* The switch with a default branch that returns the object of UNKNOWN
\* where the code's default branch throws.
mojangErrorDisplayable_NoThrow(errorCode) ==
    CASE errorCode = "ERROR_METHOD_NOT_ALLOWED" ->
            [threw |-> FALSE, title |-> queryJS("methodNotAllowedTitle"),
             desc |-> queryJS("methodNotAllowedDesc")]
      [] errorCode = "ERROR_NOT_FOUND" ->
            [threw |-> FALSE, title |-> queryJS("notFoundTitle"),
             desc |-> queryJS("notFoundDesc")]
      [] errorCode = "ERROR_USER_MIGRATED" ->
            [threw |-> FALSE, title |-> queryJS("accountMigratedTitle"),
             desc |-> queryJS("accountMigratedDesc")]
      [] errorCode = "ERROR_INVALID_CREDENTIALS" ->
            [threw |-> FALSE, title |-> queryJS("invalidCredentialsTitle"),
             desc |-> queryJS("invalidCredentialsDesc")]
      [] errorCode = "ERROR_RATELIMIT" ->
            [threw |-> FALSE, title |-> queryJS("tooManyAttemptsTitle"),
             desc |-> queryJS("tooManyAttemptsDesc")]
      [] errorCode = "ERROR_INVALID_TOKEN" ->
            [threw |-> FALSE, title |-> queryJS("invalidTokenTitle"),
             desc |-> queryJS("invalidTokenDesc")]
      [] errorCode = "ERROR_ACCESS_TOKEN_HAS_PROFILE" ->
            [threw |-> FALSE, title |-> queryJS("tokenHasProfileTitle"),
             desc |-> queryJS("tokenHasProfileDesc")]
      [] errorCode = "ERROR_CREDENTIALS_MISSING" ->
            [threw |-> FALSE, title |-> queryJS("credentialsMissingTitle"),
             desc |-> queryJS("credentialsMissingDesc")]
      [] errorCode = "ERROR_INVALID_SALT_VERSION" ->
            [threw |-> FALSE, title |-> queryJS("invalidSaltVersionTitle"),
             desc |-> queryJS("invalidSaltVersionDesc")]
      [] errorCode = "ERROR_UNSUPPORTED_MEDIA_TYPE" ->
            [threw |-> FALSE, title |-> queryJS("unsupportedMediaTypeTitle"),
             desc |-> queryJS("unsupportedMediaTypeDesc")]
      [] errorCode = "ERROR_GONE" ->
            [threw |-> FALSE, title |-> queryJS("accountGoneTitle"),
             desc |-> queryJS("accountGoneDesc")]
      [] errorCode = "ERROR_UNREACHABLE" ->
            [threw |-> FALSE, title |-> queryJS("unreachableTitle"),
             desc |-> queryJS("unreachableDesc")]
      [] errorCode = "ERROR_NOT_PAID" ->
            [threw |-> FALSE, title |-> queryJS("gameNotPurchasedTitle"),
             desc |-> queryJS("gameNotPurchasedDesc")]
      [] errorCode = "UNKNOWN" ->
            [threw |-> FALSE, title |-> queryJS("unknownErrorTitle"),
             desc |-> queryJS("unknownErrorDesc")]
      [] OTHER ->
            [threw |-> FALSE, title |-> queryJS("unknownErrorTitle"),
             desc |-> queryJS("unknownErrorDesc")]

\* mojangErrorDisplayable(errorCode): the switch, case by case; threw is
\* TRUE where the default branch throws.
mojangErrorDisplayable(errorCode) ==
    CASE errorCode = "ERROR_METHOD_NOT_ALLOWED" ->
            [threw |-> FALSE, title |-> queryJS("methodNotAllowedTitle"),
             desc |-> queryJS("methodNotAllowedDesc")]
      [] errorCode = "ERROR_NOT_FOUND" ->
            [threw |-> FALSE, title |-> queryJS("notFoundTitle"),
             desc |-> queryJS("notFoundDesc")]
      [] errorCode = "ERROR_USER_MIGRATED" ->
            [threw |-> FALSE, title |-> queryJS("accountMigratedTitle"),
             desc |-> queryJS("accountMigratedDesc")]
      [] errorCode = "ERROR_INVALID_CREDENTIALS" ->
            [threw |-> FALSE, title |-> queryJS("invalidCredentialsTitle"),
             desc |-> queryJS("invalidCredentialsDesc")]
      [] errorCode = "ERROR_RATELIMIT" ->
            [threw |-> FALSE, title |-> queryJS("tooManyAttemptsTitle"),
             desc |-> queryJS("tooManyAttemptsDesc")]
      [] errorCode = "ERROR_INVALID_TOKEN" ->
            [threw |-> FALSE, title |-> queryJS("invalidTokenTitle"),
             desc |-> queryJS("invalidTokenDesc")]
      [] errorCode = "ERROR_ACCESS_TOKEN_HAS_PROFILE" ->
            [threw |-> FALSE, title |-> queryJS("tokenHasProfileTitle"),
             desc |-> queryJS("tokenHasProfileDesc")]
      [] errorCode = "ERROR_CREDENTIALS_MISSING" ->
            [threw |-> FALSE, title |-> queryJS("credentialsMissingTitle"),
             desc |-> queryJS("credentialsMissingDesc")]
      [] errorCode = "ERROR_INVALID_SALT_VERSION" ->
            [threw |-> FALSE, title |-> queryJS("invalidSaltVersionTitle"),
             desc |-> queryJS("invalidSaltVersionDesc")]
      [] errorCode = "ERROR_UNSUPPORTED_MEDIA_TYPE" ->
            [threw |-> FALSE, title |-> queryJS("unsupportedMediaTypeTitle"),
             desc |-> queryJS("unsupportedMediaTypeDesc")]
      [] errorCode = "ERROR_GONE" ->
            [threw |-> FALSE, title |-> queryJS("accountGoneTitle"),
             desc |-> queryJS("accountGoneDesc")]
      [] errorCode = "ERROR_UNREACHABLE" ->
            [threw |-> FALSE, title |-> queryJS("unreachableTitle"),
             desc |-> queryJS("unreachableDesc")]
      [] errorCode = "ERROR_NOT_PAID" ->
            [threw |-> FALSE, title |-> queryJS("gameNotPurchasedTitle"),
             desc |-> queryJS("gameNotPurchasedDesc")]
      [] errorCode = "UNKNOWN" ->
            [threw |-> FALSE, title |-> queryJS("unknownErrorTitle"),
             desc |-> queryJS("unknownErrorDesc")]
      [] OTHER -> [threw |-> TRUE, title |-> <<>>, desc |-> <<>>]

\* The title/desc object a call of the mapper returned.
Displayable(errorCode) ==
    [title |-> mojangErrorDisplayable(errorCode).title,
     desc |-> mojangErrorDisplayable(errorCode).desc]

\* ------------------------------------------------------------------ state
VARIABLES
    authDb,           \* config.authenticationDatabase: uuid -> account
    selectedAccount,  \* config.selectedAccount: a uuid or NULL
    clientToken,      \* config.clientToken: a client token or NULL
    saved,            \* the configuration as last written by save()
    pc,               \* per invocation: the await it is suspended on
    arg,              \* per invocation: its argument and its local current
    sent,             \* per invocation: the client token handed to authenticate
    last              \* the invocation that settled last: its calls and outcome

vars == <<authDb, selectedAccount, clientToken, saved, pc, arg, sent, last>>

\* An account record of the authentication database.
Account(uuid, accessToken, username, displayName) ==
    [uuid |-> uuid, accessToken |-> accessToken,
     username |-> username, displayName |-> displayName]

NoAccount == [uuid |-> NULL, accessToken |-> NULL, username |-> NULL, displayName |-> NULL]

EmptyDb == [x \in {} |-> NoAccount]

\* The config object as one value.
Config(db, sel, ct) == [authDb |-> db, selectedAccount |-> sel, clientToken |-> ct]

\* What is known of a settled invocation.
\*   op: the operation; uuid: the account it was about;
\*   validate, refresh: the provider calls it made; save: its calls of
\*           ConfigManager.save();
\*   status: the last response's responseStatus ("THROWN": the call threw,
\*           "none": no call was made); isValid, code, token, profile, ct:
\*           what that response carried;
\*   kind: "resolve" or "reject"; type: the type of the value the promise
\*           settled to; bool, acct, err: the value.
NoOutcome ==
    [op |-> "none", uuid |-> NULL, validate |-> 0, refresh |-> 0, save |-> 0,
     status |-> "none",
     isValid |-> FALSE, code |-> NULL, token |-> NULL, profile |-> NULL, ct |-> NULL,
     kind |-> "none", type |-> "none", bool |-> FALSE, acct |-> NoAccount,
     err |-> NoDisplayable]

Called(op, uuid) == [NoOutcome EXCEPT !.op = op, !.uuid = uuid]
Responded(o, status) == [o EXCEPT !.status = status]
Saved(o) == [o EXCEPT !.save = 1]
Settled(o, kind, type) == [o EXCEPT !.kind = kind, !.type = type]
ResolveBool(o, b) == [Settled(o, "resolve", "boolean") EXCEPT !.bool = b]
ResolveUndefined(o) == Settled(o, "resolve", "undefined")
ResolveAccount(o, a) == [Settled(o, "resolve", "account") EXCEPT !.acct = a]
RejectDisplayable(o, code) ==
    [Settled(o, "reject", "displayable") EXCEPT !.err = Displayable(code)]
\* response.error, the provider's own error object
RejectResponseError(o) == Settled(o, "reject", "responseError")
\* an exception caught or uncaught, passed on as it is
RejectRaw(o) == Settled(o, "reject", "rawError")
\* a TypeError of the runtime (a property of undefined was read)
RejectTypeError(o) == Settled(o, "reject", "TypeError")

Init ==
    /\ authDb = EmptyDb
    /\ selectedAccount = NULL
    /\ clientToken = NULL
    /\ saved = Config(EmptyDb, NULL, NULL)
    /\ pc = [p \in Procs |-> "idle"]
    /\ arg = [p \in Procs |-> NoAccount]
    /\ sent = [p \in Procs |-> NULL]
    /\ last = NoOutcome

\* ------------------------------------------------ ConfigManager (the store)
\* getAuthAccount(uuid) / get(id): whether there is a record.
HasAccount(db, uuid) == uuid \in DOMAIN db

\* addMojangAuthAccount / put(account): the database with the record stored
\* under its uuid, replacing a record of the same uuid.
addMojangAuthAccount(db, uuid, accessToken, username, displayName) ==
    [x \in DOMAIN db \cup {uuid} |->
        IF x = uuid THEN Account(uuid, accessToken, username, displayName) ELSE db[x]]

\* The selection after an add: the new account is selected when it is the
\* store's first or only account.
SelectedAfterAdd(db, sel, uuid) ==
    IF DOMAIN db \ {uuid} = {} THEN uuid ELSE sel

\* updateMojangAuthAccount on a record that exists: the access token is
\* replaced in place, the uuid and the other fields stay.
updateMojangAuthAccount(db, uuid, accessToken) ==
    [db EXCEPT ![uuid].accessToken = accessToken]

\* removeAuthAccount / remove(id): the database without the uuid.
removeAuthAccount(db, uuid) ==
    [x \in DOMAIN db \ {uuid} |-> db[x]]

\* A remove that leaves the reference as it is, whatever it named.
SelectedAfterRemove_Keeps(db, sel, uuid) == {sel}

\* The selections a remove may leave: the reference stays unless it named
\* the removed account; then it is null or one of the remaining accounts.
SelectedAfterRemove(db, sel, uuid) ==
    IF sel = uuid THEN {NULL} \cup (DOMAIN db \ {uuid}) ELSE {sel}

\* getSelectedAccount(): whether the reference resolves to a record.
HasSelected == selectedAccount # NULL /\ selectedAccount \in DOMAIN authDb

\* ------------------------------------------------------------ the provider
\* The client token of an authenticate session: the one the request named,
\* or, when the request named none, one the provider generates.
SessionClientTokens(requested) ==
    IF requested = NULL THEN ClientTokens ELSE {requested}

\* ------------------------------------------------------------ bookkeeping
\* The invocation settles: its promise resolves or rejects with outcome o.
Settle(p, o) ==
    /\ pc' = [pc EXCEPT ![p] = "idle"]
    /\ arg' = [arg EXCEPT ![p] = NoAccount]
    /\ sent' = [sent EXCEPT ![p] = NULL]
    /\ last' = o

StoreUnchanged == UNCHANGED <<authDb, selectedAccount, clientToken, saved>>

\* The configuration in memory, and whether save() has written all of it.
StoreConfig == Config(authDb, selectedAccount, clientToken)
Committed == saved = StoreConfig

\* ------------------------------------------------------- addMojangAccount
\* Lines 109-111: the call, up to the await on authenticate.
AddCall(p) ==
    /\ pc[p] = "idle"
    /\ \E username \in Usernames :
          arg' = [arg EXCEPT ![p] = [NoAccount EXCEPT !.username = username]]
    /\ sent' = [sent EXCEPT ![p] = clientToken]
    /\ pc' = [pc EXCEPT ![p] = "authenticate"]
    /\ last' = NoOutcome
    /\ StoreUnchanged

\* AddSuccess without the test of line 118: the session's client token is
\* stored whether or not the store has one.
AddSuccess_NoGuard(p) ==
    /\ pc[p] = "authenticate"
    /\ \E prof \in Ids, name \in Names, tok \in Tokens, ct \in SessionClientTokens(sent[p]) :
          /\ authDb' = addMojangAuthAccount(authDb, prof, tok, arg[p].username, name)
          /\ selectedAccount' = SelectedAfterAdd(authDb, selectedAccount, prof)
          /\ clientToken' = ct
          /\ saved' = Config(authDb', selectedAccount', clientToken')
          /\ Settle(p, ResolveAccount(
                         [Saved(Responded(Called("add", prof), "SUCCESS"))
                             EXCEPT !.token = tok, !.profile = prof, !.ct = ct],
                         authDb'[prof]))

\* AddSuccess without the save() of line 121.
AddSuccess_NoSave(p) ==
    /\ pc[p] = "authenticate"
    /\ \E prof \in Ids, name \in Names, tok \in Tokens, ct \in SessionClientTokens(sent[p]) :
          /\ authDb' = addMojangAuthAccount(authDb, prof, tok, arg[p].username, name)
          /\ selectedAccount' = SelectedAfterAdd(authDb, selectedAccount, prof)
          /\ clientToken' = IF clientToken = NULL THEN ct ELSE clientToken
          /\ saved' = saved
          /\ Settle(p, ResolveAccount(
                         [Responded(Called("add", prof), "SUCCESS")
                             EXCEPT !.token = tok, !.profile = prof, !.ct = ct],
                         authDb'[prof]))

\* Lines 113-122: SUCCESS with a selected profile.
AddSuccess(p) ==
    /\ pc[p] = "authenticate"
    /\ \E prof \in Ids, name \in Names, tok \in Tokens, ct \in SessionClientTokens(sent[p]) :
          /\ authDb' = addMojangAuthAccount(authDb, prof, tok, arg[p].username, name)
          /\ selectedAccount' = SelectedAfterAdd(authDb, selectedAccount, prof)
          /\ clientToken' = IF clientToken = NULL THEN ct ELSE clientToken
          /\ saved' = Config(authDb', selectedAccount', clientToken')
          /\ Settle(p, ResolveAccount(
                         [Saved(Responded(Called("add", prof), "SUCCESS"))
                             EXCEPT !.token = tok, !.profile = prof, !.ct = ct],
                         authDb'[prof]))

\* AddNotPaid with the client token stored and saved before the profile
\* is looked at.
AddNotPaid_StoresClientToken(p) ==
    /\ pc[p] = "authenticate"
    /\ \E ct \in SessionClientTokens(sent[p]) :
          /\ clientToken' = IF clientToken = NULL THEN ct ELSE clientToken
          /\ UNCHANGED <<authDb, selectedAccount>>
          /\ saved' = Config(authDb', selectedAccount', clientToken')
          /\ Settle(p, RejectDisplayable(
                         [Saved(Responded(Called("add", NULL), "SUCCESS")) EXCEPT !.ct = ct],
                         "ERROR_NOT_PAID"))

\* Lines 113-116, 123-125: SUCCESS without a selected profile.
AddNotPaid(p) ==
    /\ pc[p] = "authenticate"
    /\ \E ct \in SessionClientTokens(sent[p]) :
          Settle(p, RejectDisplayable(
                      [Responded(Called("add", NULL), "SUCCESS") EXCEPT !.ct = ct],
                      "ERROR_NOT_PAID"))
    /\ StoreUnchanged

\* Lines 127-129 (and 131-133 when the mapper throws): a response whose
\* status is not SUCCESS.
AddRejectedWith(p, codes) ==
    /\ pc[p] = "authenticate"
    /\ \E code \in codes :
          Settle(p, RejectDisplayable(
                      [Responded(Called("add", NULL), "ERROR") EXCEPT !.code = code],
                      IF mojangErrorDisplayable(code).threw THEN "UNKNOWN" ELSE code))
    /\ StoreUnchanged

AddRejected(p) == AddRejectedWith(p, SampleCodes)

\* AddThrown without the catch of lines 131-134: the exception goes to the
\* caller as it is.
AddThrown_Rethrows(p) ==
    /\ pc[p] = "authenticate"
    /\ Settle(p, RejectRaw(Responded(Called("add", NULL), "THROWN")))
    /\ StoreUnchanged

\* Lines 131-134: authenticate threw.
AddThrown(p) ==
    /\ pc[p] = "authenticate"
    /\ Settle(p, RejectDisplayable(Responded(Called("add", NULL), "THROWN"), "UNKNOWN"))
    /\ StoreUnchanged

\* ---------------------------------------------------- removeMojangAccount
\* Lines 143-146: the lookup and the call of invalidate.
RemoveCall(p) ==
    /\ pc[p] = "idle"
    /\ \E uuid \in Ids :
          /\ HasAccount(authDb, uuid)
          /\ arg' = [arg EXCEPT ![p] = [NoAccount EXCEPT !.uuid = uuid]]
    /\ pc' = [pc EXCEPT ![p] = "invalidate"]
    /\ last' = NoOutcome
    /\ UNCHANGED sent
    /\ StoreUnchanged

\* Lines 145-146, 155-157: no record under the uuid; authAcc.accessToken
\* throws and the catch rejects with the TypeError.
RemoveMissing(p) ==
    /\ pc[p] = "idle"
    /\ \E uuid \in Ids :
          /\ ~HasAccount(authDb, uuid)
          /\ Settle(p, RejectTypeError(Called("remove", uuid)))
    /\ StoreUnchanged

\* RemoveSuccess that forgets the client token with the last account.
RemoveSuccess_ClearsClientToken(p) ==
    /\ pc[p] = "invalidate"
    /\ authDb' = removeAuthAccount(authDb, arg[p].uuid)
    /\ selectedAccount' \in SelectedAfterRemove(authDb, selectedAccount, arg[p].uuid)
    /\ clientToken' = IF authDb' = EmptyDb THEN NULL ELSE clientToken
    /\ saved' = Config(authDb', selectedAccount', clientToken')
    /\ Settle(p, ResolveUndefined(Saved(Responded(Called("remove", arg[p].uuid), "SUCCESS"))))

\* Lines 147-150: invalidate returned SUCCESS.
RemoveSuccess(p) ==
    /\ pc[p] = "invalidate"
    /\ authDb' = removeAuthAccount(authDb, arg[p].uuid)
    /\ selectedAccount' \in SelectedAfterRemove(authDb, selectedAccount, arg[p].uuid)
    /\ clientToken' = clientToken
    /\ saved' = Config(authDb', selectedAccount', clientToken')
    /\ Settle(p, ResolveUndefined(Saved(Responded(Called("remove", arg[p].uuid), "SUCCESS"))))

\* RemoveFailed with the record removed whatever the status was.
RemoveFailed_RemovesAnyway(p) ==
    /\ pc[p] = "invalidate"
    /\ authDb' = removeAuthAccount(authDb, arg[p].uuid)
    /\ selectedAccount' \in SelectedAfterRemove(authDb, selectedAccount, arg[p].uuid)
    /\ clientToken' = clientToken
    /\ saved' = Config(authDb', selectedAccount', clientToken')
    /\ Settle(p, RejectResponseError(Saved(Responded(Called("remove", arg[p].uuid), "ERROR"))))

\* Lines 151-154: invalidate returned another status.
RemoveFailed(p) ==
    /\ pc[p] = "invalidate"
    /\ Settle(p, RejectResponseError(Responded(Called("remove", arg[p].uuid), "ERROR")))
    /\ StoreUnchanged

\* Lines 155-158: invalidate threw.
RemoveThrown(p) ==
    /\ pc[p] = "invalidate"
    /\ Settle(p, RejectRaw(Responded(Called("remove", arg[p].uuid), "THROWN")))
    /\ StoreUnchanged

\* ------------------------------------------ validateSelectedMojangAccount
\* The outcome so far of a validateSelected that made its validate call.
Validating(p) == [Called("validate", arg[p].uuid) EXCEPT !.validate = 1]
\* ... and its refresh call.
Refreshing(p) == [Validating(p) EXCEPT !.status = "SUCCESS", !.refresh = 1]

\* Lines 170-171: the selected account and the call of validate.
ValidateCall(p) ==
    /\ pc[p] = "idle"
    /\ HasSelected
    /\ arg' = [arg EXCEPT ![p] = authDb[selectedAccount]]
    /\ pc' = [pc EXCEPT ![p] = "validate"]
    /\ last' = NoOutcome
    /\ UNCHANGED sent
    /\ StoreUnchanged

\* Lines 170-171: no selected account; current.accessToken throws and the
\* async function rejects with the TypeError.
ValidateNoSelection(p) ==
    /\ pc[p] = "idle"
    /\ ~HasSelected
    /\ Settle(p, RejectTypeError(Called("validate", NULL)))
    /\ StoreUnchanged

\* ValidateValid with the token of current written back and saved.
ValidateValid_WritesBack(p) ==
    /\ pc[p] = "validate"
    /\ authDb' = IF HasAccount(authDb, arg[p].uuid)
                    THEN [authDb EXCEPT ![arg[p].uuid].accessToken = arg[p].accessToken]
                    ELSE authDb
    /\ UNCHANGED <<selectedAccount, clientToken>>
    /\ saved' = Config(authDb', selectedAccount', clientToken')
    /\ Settle(p, ResolveBool(
                   [Saved(Responded(Validating(p), "SUCCESS")) EXCEPT !.isValid = TRUE], TRUE))

\* Lines 173-174, 188-191: SUCCESS, the token is valid.
ValidateValid(p) ==
    /\ pc[p] = "validate"
    /\ Settle(p, ResolveBool([Responded(Validating(p), "SUCCESS") EXCEPT !.isValid = TRUE],
                             TRUE))
    /\ StoreUnchanged

\* Lines 173-176: SUCCESS, the token is not valid; the call of refresh.
ValidateStale(p) ==
    /\ pc[p] = "validate"
    /\ pc' = [pc EXCEPT ![p] = "refresh"]
    /\ last' = NoOutcome
    /\ UNCHANGED <<arg, sent>>
    /\ StoreUnchanged

\* Lines 173, 192-194: a status other than SUCCESS; the function ends
\* without a return statement.
ValidateStatusError(p) ==
    /\ pc[p] = "validate"
    /\ Settle(p, ResolveUndefined(Responded(Validating(p), "ERROR")))
    /\ StoreUnchanged

\* Line 171: validate threw; nothing catches it.
ValidateThrown(p) ==
    /\ pc[p] = "validate"
    /\ Settle(p, RejectRaw(Responded(Validating(p), "THROWN")))
    /\ StoreUnchanged

\* RefreshSuccess with the selected account read again after the await:
\* the token goes to the account selected now.
RefreshSuccess_WritesSelected(p) ==
    /\ pc[p] = "refresh"
    /\ HasAccount(authDb, arg[p].uuid)
    /\ \E tok \in Tokens :
          /\ authDb' = updateMojangAuthAccount(
                           authDb, IF HasSelected THEN selectedAccount ELSE arg[p].uuid, tok)
          /\ UNCHANGED <<selectedAccount, clientToken>>
          /\ saved' = Config(authDb', selectedAccount', clientToken')
          /\ Settle(p, ResolveBool(Saved([Refreshing(p) EXCEPT !.token = tok]), TRUE))

\* Lines 177-180, 186-187: refresh returned SUCCESS and the record of
\* current.uuid is in the database.
RefreshSuccess(p) ==
    /\ pc[p] = "refresh"
    /\ HasAccount(authDb, arg[p].uuid)
    /\ \E tok \in Tokens :
          /\ authDb' = updateMojangAuthAccount(authDb, arg[p].uuid, tok)
          /\ UNCHANGED <<selectedAccount, clientToken>>
          /\ saved' = Config(authDb', selectedAccount', clientToken')
          /\ Settle(p, ResolveBool(Saved([Refreshing(p) EXCEPT !.token = tok]), TRUE))

\* Lines 177-180: refresh returned SUCCESS and the record of current.uuid
\* has been removed meanwhile.  What the store does with an update of a
\* record it does not hold is not fixed: the update throws before save()
\* and the function rejects, or it does nothing and the function goes on.
RefreshSuccessRemoved(p) ==
    /\ pc[p] = "refresh"
    /\ ~HasAccount(authDb, arg[p].uuid)
    /\ \E tok \in Tokens :
          \/ /\ StoreUnchanged
             /\ Settle(p, RejectTypeError([Refreshing(p) EXCEPT !.token = tok]))
          \/ /\ UNCHANGED <<authDb, selectedAccount, clientToken>>
             /\ saved' = Config(authDb', selectedAccount', clientToken')
             /\ Settle(p, ResolveBool(Saved([Refreshing(p) EXCEPT !.token = tok]), TRUE))

\* RefreshFailed with the account that could not be refreshed removed.
RefreshFailed_DropsAccount(p) ==
    /\ pc[p] = "refresh"
    /\ authDb' = removeAuthAccount(authDb, arg[p].uuid)
    /\ selectedAccount' \in SelectedAfterRemove(authDb, selectedAccount, arg[p].uuid)
    /\ clientToken' = clientToken
    /\ saved' = Config(authDb', selectedAccount', clientToken')
    /\ Settle(p, ResolveBool(Saved(Responded(Refreshing(p), "ERROR")), FALSE))

\* RefreshFailed that calls refresh again instead of returning false.
RefreshFailed_Retries(p) ==
    /\ pc[p] = "refresh"
    /\ pc' = [pc EXCEPT ![p] = "refresh again"]
    /\ last' = NoOutcome
    /\ UNCHANGED <<arg, sent>>
    /\ StoreUnchanged

\* Lines 181-185: refresh returned another status.
RefreshFailed(p) ==
    /\ pc[p] = "refresh"
    /\ Settle(p, ResolveBool(Responded(Refreshing(p), "ERROR"), FALSE))
    /\ StoreUnchanged

\* Line 176: refresh threw; nothing catches it.
RefreshThrown(p) ==
    /\ pc[p] = "refresh"
    /\ Settle(p, RejectRaw(Responded(Refreshing(p), "THROWN")))
    /\ StoreUnchanged

Next ==
    \E p \in Procs :
        \/ AddCall(p) \/ AddSuccess(p) \/ AddNotPaid(p) \/ AddRejected(p) \/ AddThrown(p)
        \/ RemoveCall(p) \/ RemoveMissing(p)
        \/ RemoveSuccess(p) \/ RemoveFailed(p) \/ RemoveThrown(p)
        \/ ValidateCall(p) \/ ValidateNoSelection(p)
        \/ ValidateValid(p) \/ ValidateStale(p) \/ ValidateStatusError(p) \/ ValidateThrown(p)
        \/ RefreshSuccess(p) \/ RefreshSuccessRemoved(p) \/ RefreshFailed(p) \/ RefreshThrown(p)

Spec == Init /\ [][Next]_vars

\* The provider answers the validate or refresh call invocation p is
\* suspended on.
Responds(p) ==
    \/ ValidateValid(p) \/ ValidateStale(p) \/ ValidateStatusError(p) \/ ValidateThrown(p)
    \/ RefreshSuccess(p) \/ RefreshSuccessRemoved(p) \/ RefreshFailed(p) \/ RefreshThrown(p)

\* validateSelected called by any caller, while one caller (the account
\* settings) logs accounts in and out, one operation at a time.
NextLive ==
    \/ AddCall(1) \/ AddSuccess(1)
    \/ RemoveCall(1) \/ RemoveSuccess(1)
    \/ \E p \in Procs :
          \/ ValidateCall(p) \/ ValidateNoSelection(p)
          \/ Responds(p)

\* These operations under the assumption that every validate and refresh
\* call is answered in the end.
LiveSpec == Init /\ [][NextLive]_vars /\ \A p \in Procs : WF_vars(Responds(p))

\* addMojangAccount called again and again by one caller, one call at a
\* time, the provider answering with any code of its enumeration or with
\* a code outside it.
NextSeq ==
    \/ AddCall(1) \/ AddSuccess(1) \/ AddNotPaid(1)
    \/ AddRejectedWith(1, ResponseCodes) \/ AddThrown(1)

SeqSpec == Init /\ [][NextSeq]_vars

TypeOK ==
    /\ DOMAIN authDb \subseteq Ids
    /\ \A u \in DOMAIN authDb : authDb[u].uuid = u /\ authDb[u].accessToken \in Tokens
    /\ selectedAccount \in Ids \cup {NULL}
    /\ clientToken \in ClientTokens \cup {NULL}
    /\ \A p \in Procs : pc[p] \in {"idle", "authenticate", "invalidate", "validate", "refresh"}

\* ================================================================ claims
\* An invocation of slot p that was suspended at the await `at` settles in
\* this step.
Settles(p, at) == pc[p] = at /\ pc'[p] = "idle"

\* ---------------------------------------------------------------------- C1
\* C1: removeAccount deletes the account if and only if invalidate returned
\* SUCCESS: the step in which a removeAccount settles after SUCCESS leaves
\* no record under the uuid and resolves; the step in which it settles after
\* another status or after invalidate threw rejects and leaves the database,
\* the selection, the client token and the saved configuration as they were.
C1_RemoveIffInvalidated ==
    [][\A p \in Procs :
          Settles(p, "invalidate") =>
             IF last'.status = "SUCCESS"
                THEN /\ last'.kind = "resolve"
                     /\ ~HasAccount(authDb', arg[p].uuid)
                     /\ last'.save = 1
                     /\ saved' = Config(authDb', selectedAccount', clientToken')
                ELSE /\ last'.kind = "reject"
                     /\ last'.save = 0
                     /\ authDb' = authDb
                     /\ selectedAccount' = selectedAccount
                     /\ clientToken' = clientToken
                     /\ saved' = saved]_vars

\* A removeAccount has just settled after SUCCESS and the record is gone,
\* while another account is still there.
C1_Witness ==
    /\ last.op = "remove" /\ last.status = "SUCCESS" /\ last.kind = "resolve"
    /\ ~HasAccount(authDb, last.uuid)
    /\ authDb # EmptyDb

\* A removeAccount has just been rejected by the provider and the record is
\* still there.
C1_WitnessFailed ==
    /\ last.op = "remove" /\ last.status = "ERROR" /\ last.kind = "reject"
    /\ HasAccount(authDb, last.uuid)

\* ---------------------------------------------------------------------- C2
\* C2 (as claimed): a validateSelected whose refresh call returned SUCCESS
\* reaches its store write (updateMojangAuthAccount and save) only for an
\* account that is still in the store: no removeAccount deleted the account
\* while the validateSelected was suspended on the provider.
C2_NoWriteAfterRemove ==
    [][\A p \in Procs :
          (Settles(p, "refresh") /\ last'.status = "SUCCESS")
             => HasAccount(authDb, arg[p].uuid)]_vars

\* ---------------------------------------------------------------------- C3
\* C3 (as claimed): when the validity check answered isValid = false and the
\* refresh call returned SUCCESS, validateSelected resolves to true, the
\* stored access token of the account equals the token the refresh call
\* returned, and the configuration has been saved.
C3_RefreshedTokenStored ==
    (last.op = "validate" /\ last.refresh = 1 /\ last.status = "SUCCESS")
       => /\ last.kind = "resolve" /\ last.type = "boolean" /\ last.bool
          /\ HasAccount(authDb, last.uuid)
          /\ authDb[last.uuid].accessToken = last.token
          /\ last.save = 1
          /\ Committed

\* ---------------------------------------------------------------------- C4
\* C4: when the validity check answered isValid = false and the refresh call
\* returned a status other than SUCCESS, validateSelected resolves to false
\* and the step changes nothing: the database, the selection, the client
\* token and the saved configuration are as before.
C4_RefreshFailedKeepsStore ==
    [][\A p \in Procs :
          (Settles(p, "refresh") /\ last'.status = "ERROR")
             => /\ last'.kind = "resolve" /\ last'.type = "boolean" /\ ~last'.bool
                /\ last'.save = 0
                /\ authDb' = authDb
                /\ selectedAccount' = selectedAccount
                /\ clientToken' = clientToken
                /\ saved' = saved]_vars

\* A validateSelected has just resolved to false after a failed refresh, and
\* the account it validated is still in the store with the token it had.
C4_Witness ==
    /\ last.op = "validate" /\ last.refresh = 1 /\ last.status = "ERROR"
    /\ last.kind = "resolve" /\ ~last.bool
    /\ HasAccount(authDb, last.uuid)

\* ---------------------------------------------------------------------- C5
\* C5: when the validity check answered isValid = true, validateSelected
\* resolves to true, has made no refresh call, and the step changes nothing
\* in the store (same records, same selection, same client token, nothing
\* saved); so any number of such calls leaves the store as zero calls do.
C5_ValidIsSideEffectFree ==
    [][\A p \in Procs :
          (Settles(p, "validate") /\ last'.status = "SUCCESS")
             => /\ last'.isValid
                /\ last'.kind = "resolve" /\ last'.type = "boolean" /\ last'.bool
                /\ last'.validate = 1 /\ last'.refresh = 0 /\ last'.save = 0
                /\ authDb' = authDb
                /\ selectedAccount' = selectedAccount
                /\ clientToken' = clientToken
                /\ saved' = saved]_vars

\* A validateSelected has just resolved to true on a valid token.
C5_Witness ==
    /\ last.op = "validate" /\ last.status = "SUCCESS" /\ last.isValid
    /\ last.refresh = 0 /\ last.kind = "resolve" /\ last.bool
    /\ HasAccount(authDb, last.uuid)

\* ---------------------------------------------------------------------- C6
\* C6: when authenticate returned SUCCESS with a selected profile,
\* addAccount resolves to an account whose uuid is the profile's id and
\* whose access token is the session's; that account is the record stored
\* under the uuid, and the configuration has been saved.
C6_AddPersistsAccount ==
    (last.op = "add" /\ last.status = "SUCCESS" /\ last.profile # NULL)
       => /\ last.kind = "resolve" /\ last.type = "account"
          /\ last.acct.uuid = last.profile
          /\ last.acct.accessToken = last.token
          /\ HasAccount(authDb, last.profile)
          /\ authDb[last.profile] = last.acct
          /\ last.save = 1
          /\ Committed

\* An addAccount has just resolved to an account while another account was
\* already in the store.
C6_Witness ==
    /\ last.op = "add" /\ last.kind = "resolve" /\ last.type = "account"
    /\ last.profile \in DOMAIN authDb
    /\ DOMAIN authDb # {last.profile}

C8_NotPaidKeepsStore ==
    [][\A p \in Procs :
          (Settles(p, "authenticate") /\ last'.status = "SUCCESS" /\ last'.profile = NULL)
             => /\ last'.kind = "reject" /\ last'.type = "displayable"
                /\ last'.err = [title |-> queryJS("gameNotPurchasedTitle"),
                                desc |-> queryJS("gameNotPurchasedDesc")]
                /\ last'.save = 0
                /\ authDb' = authDb
                /\ selectedAccount' = selectedAccount
                /\ clientToken' = clientToken
                /\ saved' = saved]_vars

\* An addAccount has just been rejected as not paid while the client token
\* is still unset.
C8_Witness ==
    /\ last.op = "add" /\ last.status = "SUCCESS" /\ last.profile = NULL
    /\ last.kind = "reject"
    /\ clientToken = NULL

\* ---------------------------------------------------------------------- C9
\* C9: the error mapper is total over the known codes: for a code of
\* MojangErrorCode it returns an object with a non-empty title and a
\* non-empty description, looked up under keys of that code alone (no other
\* code has the same title or description, and title and description
\* differ), and that object is what addAccount rejects with; for a code
\* outside the enumeration the mapper throws.
C9_MapperTotalOnKnownCodes ==
    (last.op = "add" /\ last.status = "ERROR")
       => LET d == mojangErrorDisplayable(last.code) IN
          IF last.code \in MojangErrorCode
             THEN /\ ~d.threw
                  /\ Len(d.title) > 0 /\ Len(d.desc) > 0
                  /\ d.title # d.desc
                  /\ \A c \in MojangErrorCode \ {last.code} :
                        /\ mojangErrorDisplayable(c).title # d.title
                        /\ mojangErrorDisplayable(c).desc # d.desc
                  /\ last.kind = "reject"
                  /\ last.err = [title |-> d.title, desc |-> d.desc]
             ELSE d.threw

\* An addAccount has just been rejected with the object of a known code.
C9_Witness ==
    /\ last.op = "add" /\ last.status = "ERROR" /\ last.code = "ERROR_GONE"
    /\ last.err.title = queryJS("accountGoneTitle")

\* --------------------------------------------------------------------- C10
\* C10 (as claimed): every validateSelected that resolves, resolves to a
\* boolean, whatever the validity check answered.
C10_ResolvesToBoolean ==
    (last.op = "validate" /\ last.kind = "resolve") => last.type = "boolean"

\* --------------------------------------------------------------------- C11
\* C11 (as claimed): whatever an operation fails with is an error object of
\* the mapper (title and description); never the provider's response.error
\* and never a caught or uncaught exception.
C11_FailuresAreNormalized ==
    last.kind = "reject" => last.type = "displayable"

\* --------------------------------------------------------------------- C12
\* C12 (as claimed): when the validity check itself fails (a status other
\* than SUCCESS, or the call throws), validateSelected fails with an error
\* object of the mapper, has made no refresh call and has saved nothing.
C12_ValidityCheckFailureFails ==
    (last.op = "validate" /\ last.validate = 1 /\ last.refresh = 0
        /\ last.status \in {"ERROR", "THROWN"})
       => /\ last.kind = "reject" /\ last.type = "displayable"
          /\ last.save = 0

\* --------------------------------------------------------------------- C13
\* C13: when authenticate throws, or a step of addAccount throws after the
\* response has come (the mapper, on a code it has no case for), addAccount
\* rejects with the error object of UNKNOWN; an addAccount never rejects
\* with the exception itself.
C13_AddFailsWithUnknown ==
    /\ (last.op = "add" /\ last.kind = "reject") => last.type = "displayable"
    /\ (last.op = "add"
          /\ (last.status = "THROWN"
                \/ (last.status = "ERROR" /\ last.code \notin MojangErrorCode)))
         => /\ last.kind = "reject"
            /\ last.err = [title |-> queryJS("unknownErrorTitle"),
                           desc |-> queryJS("unknownErrorDesc")]

\* An addAccount whose authenticate call threw has just been rejected.
C13_Witness ==
    /\ last.op = "add" /\ last.status = "THROWN" /\ last.kind = "reject"
    /\ last.err.title = queryJS("unknownErrorTitle")

\* --------------------------------------------------------------------- C14
\* C14 (as claimed): removeAccount of an id that is not in the store makes
\* no invalidate call, saves nothing and fails with an error object (the
\* NotFound AuthError).
C14_RemoveMissingIsNotFound ==
    (last.op = "remove" /\ last.status = "none")
       => /\ last.kind = "reject" /\ last.type = "displayable"
          /\ last.save = 0

AwaitPoints == {"idle", "authenticate", "invalidate", "validate", "refresh"}

\* C16 (as claimed): every validateSelected makes exactly one validity-check
\* call.
C16_ExactlyOneValidityCheck ==
    last.op = "validate" => last.validate = 1

\* C16 (amended): a validateSelected that finds a selected account makes
\* exactly one validity-check call and at most one refresh call, the
\* refresh call after the validity check; one that finds no selected
\* account makes no call.  No invocation is ever suspended on a second
\* refresh call, and if every provider call is answered, every
\* validateSelected settles.
C16_SingleAttemptAndCompletes ==
    /\ [](/\ \A p \in Procs : pc[p] \in AwaitPoints
          /\ last.op = "validate" =>
                /\ last.validate = (IF last.uuid = NULL THEN 0 ELSE 1)
                /\ last.refresh \in {0, 1}
                /\ last.refresh = 1 => (last.validate = 1 /\ ~last.isValid))
    /\ \A p \in Procs : (pc[p] \in {"validate", "refresh"}) ~> (pc[p] = "idle")

\* A validateSelected has just returned false after its one refresh call.
C16_Witness ==
    /\ last.op = "validate" /\ last.validate = 1 /\ last.refresh = 1
    /\ last.status = "ERROR" /\ last.kind = "resolve" /\ ~last.bool

C18_RefreshWritesCurrentOnly ==
    [][\A p \in Procs :
          (Settles(p, "refresh") /\ last'.status = "SUCCESS")
             => /\ DOMAIN authDb' = DOMAIN authDb
                /\ selectedAccount' = selectedAccount
                /\ \A u \in DOMAIN authDb :
                      authDb'[u] = IF u = arg[p].uuid
                                      THEN [authDb[u] EXCEPT !.accessToken = last'.token]
                                      ELSE authDb[u]]_vars

\* A refreshed token has just been written onto an account that is no
\* longer the selected one, next to another account.
C18_Witness ==
    /\ last.op = "validate" /\ last.refresh = 1 /\ last.status = "SUCCESS"
    /\ last.kind = "resolve"
    /\ HasAccount(authDb, last.uuid)
    /\ authDb[last.uuid].accessToken = last.token
    /\ selectedAccount # last.uuid
    /\ DOMAIN authDb # {last.uuid}

\* --------------------------------------------------------------------- C19
\* C19 (as claimed): the client token of the session of every account an
\* addAccount persists is the client token of the store.
C19_SessionsUnderStoreToken ==
    (last.op = "add" /\ last.kind = "resolve") => last.ct = clientToken

====
